---- MODULE Spec2Model ----
(***************************************************************************)
(* COWNotifier: the article pipeline of newsparser.py (articleParser,      *)
(* newsArticle) and the reader of newsreader.py (newsReader) as state      *)
(* machines.                                                               *)
(*                                                                         *)
(* A Python str is a sequence of one-character strings, so that find,      *)
(* slicing and escaping act on characters as they do in the code.  Python  *)
(* None is the value None below, which no character sequence equals.       *)
(***************************************************************************)
EXTENDS Integers, Sequences, FiniteSets, TLC

VARIABLES
  emoji,               \* emoji_codepoints.emoji: short name -> glyph
  events,              \* articleParser: handler calls HTMLParser has made so far
  fed,                 \* articleParser.fed
  alive,               \* a newsArticle has been constructed
  author_username, author_displayname, topic, subject, date,
  raw_msg, raw_html,   \* newsArticle raw fields
  broken, content, is_plus_one,
  mm_calls,            \* calls MentionManager.parseMentions has received
  feeds,               \* number of articleParser.feed calls made for the article
  html_fed,            \* the raw_html the last of them was given
  op,                  \* the method the caller invoked last
  arg,                 \* its argument, and the raw_html it found
  ret,                 \* what it returned
  raised,              \* the exception it let through to the caller
  articles,            \* two newsArticle objects side by side: id -> fields
  render,              \* the parseMessage call of each: position and locals
  parsers,             \* the articleParser objects these calls made: self.fed
  groups,              \* newsReader.groups: topic -> last article number read
  server,              \* the NNTP server: topic -> first and last number
  listed,              \* the last number conn.list() gave for each topic
  delivered            \* topic -> the article numbers updateTopic has returned

parserVars == <<events, fed>>
articleVars == <<alive, author_username, author_displayname, topic, subject, date,
                 raw_msg, raw_html, broken, content, is_plus_one>>
callVars == <<mm_calls, feeds, html_fed, op, arg, ret, raised>>
pairVars == <<articles, render, parsers>>
readerVars == <<groups, server, listed, delivered>>
vars == <<emoji, parserVars, articleVars, callVars, pairVars, readerVars>>

\* ------------------------------------------------------------ Python values

None == <<"None">>
True == <<"True">>
False == <<"False">>
NoArg == <<>>

RECURSIVE FindAt(_, _, _)
\* the lowest index at or after i where sub occurs in s, or -1
FindAt(s, sub, i) ==
  IF i + Len(sub) > Len(s) THEN -1
  ELSE IF SubSeq(s, i + 1, i + Len(sub)) = sub THEN i
  ELSE FindAt(s, sub, i + 1)

\* str.find(sub): the lowest 0-based index where sub occurs in s, or -1
Find(s, sub) == FindAt(s, sub, 0)

\* s[a:b] for a >= 0 and b >= 0 (a slice past the end is cut to the end)
Slice(s, a, b) ==
  LET hi == IF b < Len(s) THEN b ELSE Len(s)
  IN IF a >= hi THEN <<>> ELSE SubSeq(s, a + 1, hi)

\* s[a:] for a >= 0
SliceFrom(s, a) == Slice(s, a, Len(s))

RECURSIVE Join(_)
\* "".join(list)
Join(list) == IF list = <<>> THEN <<>> ELSE Head(list) \o Join(Tail(list))

\* ------------------------------------------------- dict and exception values

\* dict.get(key, default); a dict is a function on its keys
DictGet(d, key, default) == IF key \in DOMAIN d THEN d[key] ELSE default

\* the exceptions of the model, each under the error kind of the specification
\* where it has one
NoException == "NoException"
DateParseError == "ValueError: time data does not match format"
OffsetTypeError == "TypeError: unsupported type for timedelta hours component"
MarkupParseError == "TypeError: can only concatenate str"
MentionExtractionError == "MentionExtractionError"
AttributeError == "AttributeError: NoneType has no attribute startswith"

\* ------------------------------------------------------------ articleParser

supported_tags == {
  <<"s","t","r","i","k","e">>, <<"i">>, <<"s","t","r","o","n","g">>, <<"b">>,
  <<"p","r","e">>, <<"i","n","s">>, <<"a">>, <<"c","o","d","e">>,
  <<"d","e","l">>, <<"s">>, <<"e","m">>, <<"u">> }

useful_attrs == { <<"h","r","e","f">>, <<"t","i","t","l","e">>, <<"c","l","a","s","s">> }

tag_mapping ==
  [t \in { <<"h","1">>, <<"h","2">>, <<"h","3">>,
           <<"b","l","o","c","k","q","u","o","t","e">> } |->
     IF t = <<"b","l","o","c","k","q","u","o","t","e">> THEN <<"i">> ELSE <<"b">>]

\* {at[0]: at[1] for at in attrs if at[0] in self.useful_attrs}: the last pair of
\* a name wins
TagAttrs(attrs) ==
  [k \in {attrs[i][1] : i \in 1..Len(attrs)} \cap useful_attrs |->
     LET last == CHOOSE i \in 1..Len(attrs) :
                   /\ attrs[i][1] = k
                   /\ \A j \in 1..Len(attrs) : attrs[j][1] = k => j <= i
     IN attrs[last][2]]

\* the tag handle_starttag and handle_endtag write for tag, None when it is dropped
Ptag(tag) == IF tag \in supported_tags THEN tag ELSE DictGet(tag_mapping, tag, None)

\* the href written for every tag, not for a alone
AttrStrAnyTag(tag, tag_attrs) ==
  <<" ","h","r","e","f","=","\"">> \o DictGet(tag_attrs, <<"h","r","e","f">>, <<>>) \o <<"\"">>

\* ' href="' + tag_attrs.get('href', '') + '"' if tag == 'a' else ''
AttrStr(tag, tag_attrs) ==
  IF tag = <<"a">>
    THEN <<" ","h","r","e","f","=","\"">> \o DictGet(tag_attrs, <<"h","r","e","f">>, <<>>)
         \o <<"\"">>
    ELSE <<>>

\* handle_starttag raises TypeError when it concatenates a str and None: the
\* href of an <a href> written without a value
StarttagRaises(tag, attrs) ==
  /\ Ptag(tag) # None
  /\ tag = <<"a">>
  /\ DictGet(TagAttrs(attrs), <<"h","r","e","f">>, <<>>) = None

\* emoji.get(tag_attrs.get('title', ':cow:'), '')
EmojiGlyph(table, tag_attrs) ==
  DictGet(table, DictGet(tag_attrs, <<"t","i","t","l","e">>, <<":","c","o","w",":">>), <<>>)

\* whether handle_starttag looks the tag up in the emoji table
IsEmoji(tag, tag_attrs) ==
  tag = <<"i","m","g">> /\ DictGet(tag_attrs, <<"c","l","a","s","s">>, <<>>) = <<"e","m","o","j","i">>

\* self.fed after handle_starttag(tag, attrs) when it does not raise
handle_starttag(table, f, tag, attrs) ==
  LET tag_attrs == TagAttrs(attrs)
      ptag == Ptag(tag)
      f1 == IF ptag # None
              THEN Append(f, <<"<">> \o ptag \o AttrStr(tag, tag_attrs) \o <<">">>)
              ELSE f
  IN IF IsEmoji(tag, tag_attrs) THEN Append(f1, EmojiGlyph(table, tag_attrs)) ELSE f1

\* handle_endtag without the lookup in tag_mapping
handle_endtag_unmapped(f, tag) ==
  IF tag \in supported_tags THEN Append(f, <<"<","/">> \o tag \o <<">">>) ELSE f

\* self.fed after handle_endtag(tag)
handle_endtag(f, tag) ==
  IF Ptag(tag) # None THEN Append(f, <<"<","/">> \o Ptag(tag) \o <<">">>) ELSE f

\* self.fed after handle_data(data)
handle_data(f, data) == Append(f, data)

\* self.fed after handle_entityref(name)
handle_entityref(f, name) == Append(f, <<"&">> \o name \o <<";">>)

\* self.fed after handle_charref(name): with convert_charrefs=False HTMLParser
\* calls handle_charref, which articleParser does not override
handle_charref(f, name) == f

get_data(f) == Join(f)

\* the handler calls HTMLParser makes, as events
StartTag(tag, attrs) == [type |-> "starttag", tag |-> tag, attrs |-> attrs]
EndTag(tag) == [type |-> "endtag", tag |-> tag]
Data(data) == [type |-> "data", data |-> data]
EntityRef(name) == [type |-> "entityref", name |-> name]
CharRef(name) == [type |-> "charref", name |-> name]

EventRaises(e) == e.type = "starttag" /\ StarttagRaises(e.tag, e.attrs)

\* self.fed after the handler that event e calls
Dispatch(table, f, e) ==
  CASE e.type = "starttag" -> handle_starttag(table, f, e.tag, e.attrs)
    [] e.type = "endtag" -> handle_endtag(f, e.tag)
    [] e.type = "data" -> handle_data(f, e.data)
    [] e.type = "entityref" -> handle_entityref(f, e.name)
    [] e.type = "charref" -> handle_charref(f, e.name)

\* ------------------------------------------------------ HTMLParser.feed

Min(S) == CHOOSE x \in S : \A y \in S : x <= y

\* the attributes HTMLParser reports for the text after a tag's name:
\* name="value" pairs, and a name without a value as (name, None)
RECURSIVE ParseAttrs(_)
ParseAttrs(s) ==
  IF s = <<>> THEN <<>>
  ELSE IF s[1] = " " THEN ParseAttrs(Tail(s))
  ELSE LET stop == Min({i \in 1..Len(s) : s[i] \in {"=", " "}} \cup {Len(s) + 1})
           name == SubSeq(s, 1, stop - 1)
           rest == SubSeq(s, stop + 2, Len(s))
       IN IF stop < Len(s) /\ s[stop] = "=" /\ s[stop + 1] = "\"" /\ Find(rest, <<"\"">>) >= 0
            THEN << <<name, Slice(rest, 0, Find(rest, <<"\"">>))>> >>
                 \o ParseAttrs(SliceFrom(rest, Find(rest, <<"\"">>) + 1))
            ELSE << <<name, None>> >> \o ParseAttrs(SubSeq(s, stop, Len(s)))

\* the handler calls p.feed(html) makes for a str of tags <name attrs> and
\* </name>, references &name; and &#n; and text: HTMLParser with
\* convert_charrefs=False, which reports text up to the next "<" or "&" and
\* holds back an unfinished tag (close() is never called)
RECURSIVE Tokenize(_)
Tokenize(s) ==
  IF s = <<>> THEN <<>>
  ELSE IF s[1] = "<" THEN
    LET gt == Find(s, <<">">>)
        inner == Slice(s, 1, gt)
        sp == Min({i \in 1..Len(inner) : inner[i] = " "} \cup {Len(inner) + 1})
    IN IF gt = -1 THEN <<>>
       ELSE IF inner # <<>> /\ inner[1] = "/"
         THEN <<EndTag(Tail(inner))>> \o Tokenize(SliceFrom(s, gt + 1))
         ELSE <<StartTag(SubSeq(inner, 1, sp - 1), ParseAttrs(SubSeq(inner, sp, Len(inner))))>>
              \o Tokenize(SliceFrom(s, gt + 1))
  ELSE IF s[1] = "&" THEN
    LET semi == Find(s, <<";">>)
    IN IF semi = -1 THEN <<Data(s)>>
       ELSE IF s[2] = "#"
         THEN <<CharRef(Slice(s, 2, semi))>> \o Tokenize(SliceFrom(s, semi + 1))
         ELSE <<EntityRef(Slice(s, 1, semi))>> \o Tokenize(SliceFrom(s, semi + 1))
  ELSE
    LET stop == Min({i \in 1..Len(s) : s[i] \in {"<", "&"}} \cup {Len(s) + 1})
    IN <<Data(SubSeq(s, 1, stop - 1))>> \o Tokenize(SubSeq(s, stop, Len(s)))

RECURSIVE FeedAll(_, _, _)
\* self.fed after the handler calls evs
FeedAll(table, f, evs) ==
  IF evs = <<>> THEN f ELSE FeedAll(table, Dispatch(table, f, Head(evs)), Tail(evs))

\* p.feed(raw_html) raises: raw_html is None, or a handler raises
FeedRaises(html) ==
  \/ html = None
  \/ \E i \in 1..Len(Tokenize(html)) : EventRaises(Tokenize(html)[i])

\* p = articleParser(); p.feed(html); p.get_data()
Transcode(table, html) == get_data(FeedAll(table, <<>>, Tokenize(html)))

\* ------------------------------------------------- getHumanReadableDate

Digits == <<"0","1","2","3","4","5","6","7","8","9">>

IsDigits(s) == \A i \in 1..Len(s) : \E d \in 1..10 : Digits[d] = s[i]

RECURSIVE Num(_)
\* int(s) of a string of digits
Num(s) ==
  IF s = <<>> THEN 0
  ELSE Num(SubSeq(s, 1, Len(s) - 1)) * 10 + (CHOOSE d \in 0..9 : Digits[d + 1] = s[Len(s)])

TwoDigits(n) == <<Digits[((n \div 10) % 10) + 1], Digits[(n % 10) + 1]>>
FourDigits(n) == TwoDigits(n \div 100) \o TwoDigits(n % 100)

IsLeap(y) == (y % 4 = 0 /\ y % 100 # 0) \/ y % 400 = 0

DaysIn(y, m) ==
  IF m = 2 THEN (IF IsLeap(y) THEN 29 ELSE 28)
  ELSE IF m \in {4, 6, 9, 11} THEN 30 ELSE 31

MonthAbbr == <<<<"J","a","n">>, <<"F","e","b">>, <<"M","a","r">>, <<"A","p","r">>, <<"M","a","y">>, <<"J","u","n">>,
               <<"J","u","l">>, <<"A","u","g">>, <<"S","e","p">>, <<"O","c","t">>, <<"N","o","v">>, <<"D","e","c">>>>

\* rawDate.split('.')[0]
BeforeDot(s) == IF Find(s, <<".">>) = -1 THEN s ELSE Slice(s, 0, Find(s, <<".">>))

\* the fields strptime(s, "%Y-%m-%dT%H:%M:%S") reads from a string of two-digit
\* fields and a four-digit year
DateFields(s) ==
  [Y |-> Num(SubSeq(s, 1, 4)), m |-> Num(SubSeq(s, 6, 7)), d |-> Num(SubSeq(s, 9, 10)),
   H |-> Num(SubSeq(s, 12, 13)), M |-> Num(SubSeq(s, 15, 16)), S |-> Num(SubSeq(s, 18, 19))]

\* strptime(s, "%Y-%m-%dT%H:%M:%S") raises ValueError
StrptimeRaises(s) ==
  ~ /\ Len(s) = 19
    /\ s[5] = "-" /\ s[8] = "-" /\ s[11] = "T" /\ s[14] = ":" /\ s[17] = ":"
    /\ IsDigits(SubSeq(s, 1, 4)) /\ IsDigits(SubSeq(s, 6, 7)) /\ IsDigits(SubSeq(s, 9, 10))
    /\ IsDigits(SubSeq(s, 12, 13)) /\ IsDigits(SubSeq(s, 15, 16)) /\ IsDigits(SubSeq(s, 18, 19))
    /\ DateFields(s).Y >= 1
    /\ DateFields(s).m \in 1..12
    /\ DateFields(s).d \in 1..DaysIn(DateFields(s).Y, DateFields(s).m)
    /\ DateFields(s).H \in 0..23 /\ DateFields(s).M \in 0..59 /\ DateFields(s).S \in 0..59

RECURSIVE AddDays(_, _)
\* the date t moved n days on, n >= 0
AddDays(t, n) ==
  IF n = 0 THEN t
  ELSE IF t.d < DaysIn(t.Y, t.m) THEN AddDays([t EXCEPT !.d = t.d + 1], n - 1)
  ELSE IF t.m < 12 THEN AddDays([t EXCEPT !.d = 1, !.m = t.m + 1], n - 1)
  ELSE AddDays([t EXCEPT !.d = 1, !.m = 1, !.Y = t.Y + 1], n - 1)

\* t + datetime.timedelta(hours=h), h >= 0
AddHours(t, h) == AddDays([t EXCEPT !.H = (t.H + h) % 24], (t.H + h) \div 24)

\* t.strftime("%d %b %Y, %H:%M:%S")
Strftime(t) ==
  TwoDigits(t.d) \o <<" ">> \o MonthAbbr[t.m] \o <<" ">> \o FourDigits(t.Y) \o <<",", " ">>
  \o TwoDigits(t.H) \o <<":">> \o TwoDigits(t.M) \o <<":">> \o TwoDigits(t.S)

\* a localTimezone: a number of hours, or the list [hours, minutes] of the comment
IntOffset(h) == [type |-> "int", hours |-> h]
ListOffset(h, m) == [type |-> "list", items |-> <<h, m>>]

\* getHumanReadableDate(d) raises: strptime first, then timedelta(hours=<a list>)
DateRaises(d) ==
  IF StrptimeRaises(BeforeDot(d[1])) THEN DateParseError
  ELSE IF d[2].type # "int" THEN OffsetTypeError
  ELSE NoException

getHumanReadableDate(d) == Strftime(AddHours(DateFields(BeforeDot(d[1])), d[2].hours))

\* ------------------------------------------------------------- newsArticle

\* isPlusOne with the length test off by one
isPlusOneUpToTen(msg) == Slice(msg, 0, 2) = <<"+","1">> /\ Len(msg) <= 10

\* isPlusOne(msg) of a str
isPlusOne(msg) == Slice(msg, 0, 2) = <<"+","1">> /\ Len(msg) < 10

\* str(b) of a bool
PyBool(b) == IF b THEN True ELSE False

RECURSIVE Escape(_)
\* html.escape(s)
Escape(s) ==
  IF s = <<>> THEN <<>>
  ELSE (CASE Head(s) = "&" -> <<"&","a","m","p",";">>
          [] Head(s) = "<" -> <<"&","l","t",";">>
          [] Head(s) = ">" -> <<"&","g","t",";">>
          [] Head(s) = "\"" -> <<"&","q","u","o","t",";">>
          [] Head(s) = "'" -> <<"&","#","x","2","7",";">>
          [] OTHER -> <<Head(s)>>) \o Escape(Tail(s))

\* getAsHtml without its test of the cache
NeedsParseAlways(c) == TRUE

\* whether getAsHtml calls parseMessage
NeedsParse(c) == c = None

\* parseMessage without its test of the broken flag
SkipsRenderNever(b) == FALSE

\* whether parseMessage returns at once
SkipsRender(b) == b

\* self.isPlusOne() raises: the flag is not cached and raw_msg is no str
IsPlusOneRaises == is_plus_one = None /\ raw_msg = None

\* self.is_plus_one after self.isPlusOne()
PlusOneCached == IF is_plus_one = None THEN PyBool(isPlusOne(raw_msg)) ELSE is_plus_one

\* str(self.isPlusOne()) as the f-string of the header formats it
BoolStr(b) == IF b = True THEN <<"T","r","u","e">> ELSE <<"F","a","l","s","e">>

\* the header makeHeader builds from the fields of an article, ipo being what
\* self.isPlusOne() returns
Header(un, dn, t, s, d, ipo) ==
  <<"<","c","o","d","e",">">> \o Escape(<<"F","r","o","m",":"," ">> \o un \o <<"(">> \o dn
                   \o <<")", "\r", "\n">>
                   \o <<"N","e","w","s","g","r","o","u","p",":"," ">> \o t \o <<"\r", "\n">>
                   \o <<"S","u","b","j","e","c","t",":"," ">> \o s \o <<"\r", "\n">>
                   \o <<"D","a","t","e",":"," ">> \o d \o <<"\r", "\n">>
                   \o <<"i","s","_","p","l","u","s","_","o","n","e",":"," ">> \o BoolStr(ipo))
  \o <<"<","/","c","o","d","e",">","\n","\n">>

\* makeHeader()
makeHeader ==
  Header(author_username, author_displayname, topic, subject, date, PlusOneCached)

\* parseMentions given the content, header included
MentionOfContent(text, top) == <<makeHeader \o text, top>>

\* the text parseMentions is given, and self.content is hdr + this text
MentionText == Transcode(emoji, raw_html)
Mention(text, top) == <<text, top>>
Content(hdr, text) == hdr \o text

\* parseMessage(), the collaborator's parseMentions returning (mmOk) or raising
parseMessage(mmOk) ==
  IF SkipsRender(broken)
    THEN UNCHANGED <<broken, content, is_plus_one, mm_calls, feeds, html_fed>>
  ELSE IF IsPlusOneRaises
    THEN /\ broken' = TRUE
         /\ UNCHANGED <<content, is_plus_one, mm_calls, feeds, html_fed>>
  ELSE /\ is_plus_one' = PlusOneCached
       /\ feeds' = feeds + 1
       /\ html_fed' = raw_html
       /\ IF FeedRaises(raw_html)
            THEN broken' = TRUE /\ UNCHANGED <<content, mm_calls>>
            ELSE /\ mm_calls' = Append(mm_calls, Mention(MentionText, topic))
                 /\ IF mmOk
                      THEN content' = Content(makeHeader, MentionText) /\ UNCHANGED broken
                      ELSE broken' = TRUE /\ UNCHANGED content

\* ---------------------------------------------------- newsArticle.parseLinks

\* s.find(sub) from position from on, as an index of s
FindFrom(s, sub, from) == FindAt(s, sub, from)

NoMatch == [start |-> -1, end |-> -1, name_start |-> -1, name_end |-> -1]

\* the match of !\[([^\]]*)\]\(([^\)]*)\) that starts at p, with span() as
\* start and end and span(1) as name_start and name_end: the name runs to the
\* first "]", which "(" must follow, and the target runs to the first ")"
MatchAt(msg, p) ==
  LET rb == FindFrom(msg, <<"]">>, p + 2)
      rp == FindFrom(msg, <<")">>, rb + 2)
  IN IF /\ Slice(msg, p, p + 2) = <<"!", "[">>
        /\ rb # -1
        /\ Slice(msg, rb + 1, rb + 2) = <<"(">>
        /\ rp # -1
       THEN [start |-> p, end |-> rp + 1, name_start |-> p + 2, name_end |-> rb]
       ELSE NoMatch

RECURSIVE FindIter(_, _)
\* pattern.finditer(msg), searching from position from
FindIter(msg, from) ==
  IF from >= Len(msg) THEN <<>>
  ELSE LET m == MatchAt(msg, from)
       IN IF m # NoMatch THEN <<m>> \o FindIter(msg, m.end) ELSE FindIter(msg, from + 1)

RECURSIVE Str(_)
\* str(n), n >= 0
Str(n) == IF n < 10 THEN <<Digits[n + 1]>> ELSE Str(n \div 10) \o <<Digits[(n % 10) + 1]>>

img_tag == <<"<","i","m","g"," ","s","r","c","=","\"">>

\* link_name of a match
LinkName(msg, m, link_counter) ==
  IF Slice(msg, m.name_start, m.name_end) = <<>>
    THEN <<"L","i","n","k"," ">> \o Str(link_counter)
    ELSE Slice(msg, m.name_start, m.name_end)

html_link_start(html) == Find(html, img_tag) + Len(img_tag)
html_link_len(html, start) == Find(SliceFrom(html, start), <<"\"">>)
html_link(html, start, len) == Slice(html, start, start + len)

\* parseLinks without the discard of the used html
DiscardNothing(html, start, len) == html

\* self.raw_html after "Discard used html"
Discard(html, start, len) == SliceFrom(html, start + len)

RECURSIVE LinksLoop(_, _, _, _, _, _)
\* the for loop of parseLinks over the matches ms, and the text after the last
LinksLoop(msg, ms, html, parsed, link_counter, last_pos) ==
  IF ms = <<>> THEN [parsed |-> parsed \o SliceFrom(msg, last_pos), raw_html |-> html]
  ELSE LET start == html_link_start(html)
           len == html_link_len(html, start)
       IN LinksLoop(msg, Tail(ms), Discard(html, start, len),
                    parsed \o Slice(msg, last_pos, Head(ms).start)
                      \o <<"[">> \o LinkName(msg, Head(ms), link_counter)
                      \o <<"]", "(">> \o html_link(html, start, len) \o <<")">>,
                    link_counter + 1, Head(ms).end)

\* parseLinks(msg) on an article whose raw_html is html
parseLinks(msg, html) == LinksLoop(msg, FindIter(msg, 0), html, <<>>, 1, 0)

\* ------------------------------------------------ articleParser as a machine
\* SpecParser: one articleParser, fed by HTMLParser one handler call at a time.

MaxEvents == 4

EmojiTables == {
  [k \in { <<":","s","m","i","l","e",":">>, <<":","c","o","w",":">> } |->
     IF k = <<":","c","o","w",":">> THEN <<"C">> ELSE <<"S">>],
  [k \in { <<":","s","m","i","l","e",":">> } |-> <<"S">>] }

ClassEmoji == << <<"c","l","a","s","s">>, <<"e","m","o","j","i">> >>

\* the start tags HTMLParser reports in the model: (tag, attrs)
StartTagInputs == {
  << <<"b">>, <<>> >>,
  << <<"h","1">>, <<>> >>,
  << <<"b","l","o","c","k","q","u","o","t","e">>, <<>> >>,
  << <<"a">>, << << <<"h","r","e","f">>, None >> >> >>,
  << <<"a">>, << << <<"h","r","e","f">>, <<"u">> >> >> >>,
  << <<"i">>, << << <<"h","r","e","f">>, <<"u">> >>, << <<"t","i","t","l","e">>, <<"x">> >> >> >>,
  << <<"d","i","v">>, << << <<"c","l","a","s","s">>, <<"q">> >> >> >>,
  << <<"i","m","g">>, << << <<"s","r","c">>, <<"X">> >> >> >>,
  << <<"i","m","g">>, << ClassEmoji >> >>,
  << <<"i","m","g">>, << << <<"t","i","t","l","e">>, <<":","s","m","i","l","e",":">> >>, ClassEmoji >> >>,
  << <<"i","m","g">>, << << <<"t","i","t","l","e">>, <<":","z",":">> >>, ClassEmoji >> >> }

EndTagInputs ==
  { <<"b">>, <<"h","1">>, <<"b","l","o","c","k","q","u","o","t","e">>, <<"a">>, <<"d","i","v">> }
DataInputs == { <<"t">>, <<"v">> }
EntityInputs == { <<"g","t">> }
CharRefInputs == { <<"3","9">> }

\* the article fields while no article exists
NoArticle ==
  /\ alive = FALSE
  /\ author_username = None /\ author_displayname = None
  /\ topic = None /\ subject = None /\ date = None
  /\ raw_msg = None /\ raw_html = None
  /\ broken = FALSE /\ content = None /\ is_plus_one = None

NoCalls ==
  /\ mm_calls = <<>> /\ feeds = 0 /\ html_fed = None
  /\ op = "none" /\ arg = NoArg /\ ret = None /\ raised = NoException

\* no pair of articles is being rendered
NoPair == articles = <<>> /\ render = <<>> /\ parsers = <<>>

\* no newsReader exists
NoReader == groups = <<>> /\ server = <<>> /\ listed = <<>> /\ delivered = <<>>

\* articleParser.__init__: self.fed = []
InitParser ==
  /\ emoji \in EmojiTables
  /\ events = <<>>
  /\ fed = <<>>
  /\ NoArticle
  /\ NoCalls
  /\ NoPair
  /\ NoReader

Feeding == Len(events) < MaxEvents /\ raised = NoException

HandleStarttag ==
  \E in \in StartTagInputs :
    /\ Feeding
    /\ events' = Append(events, StartTag(in[1], in[2]))
    /\ fed' = IF StarttagRaises(in[1], in[2]) THEN fed
              ELSE handle_starttag(emoji, fed, in[1], in[2])
    /\ raised' = IF StarttagRaises(in[1], in[2]) THEN MarkupParseError ELSE raised
    /\ UNCHANGED <<pairVars, readerVars, emoji, articleVars, mm_calls, feeds, html_fed, op, arg, ret>>

HandleEndtag ==
  \E tag \in EndTagInputs :
    /\ Feeding
    /\ events' = Append(events, EndTag(tag))
    /\ fed' = handle_endtag(fed, tag)
    /\ UNCHANGED <<pairVars, readerVars, emoji, articleVars, callVars>>

HandleData ==
  \E data \in DataInputs :
    /\ Feeding
    /\ events' = Append(events, Data(data))
    /\ fed' = handle_data(fed, data)
    /\ UNCHANGED <<pairVars, readerVars, emoji, articleVars, callVars>>

HandleEntityref ==
  \E name \in EntityInputs :
    /\ Feeding
    /\ events' = Append(events, EntityRef(name))
    /\ fed' = handle_entityref(fed, name)
    /\ UNCHANGED <<pairVars, readerVars, emoji, articleVars, callVars>>

HandleCharref ==
  \E name \in CharRefInputs :
    /\ Feeding
    /\ events' = Append(events, CharRef(name))
    /\ fed' = handle_charref(fed, name)
    /\ UNCHANGED <<pairVars, readerVars, emoji, articleVars, callVars>>

NextParser ==
  \/ HandleStarttag
  \/ HandleEndtag
  \/ HandleData
  \/ HandleEntityref
  \/ HandleCharref

SpecParser == InitParser /\ [][NextParser]_vars

\* ------------------------------------------------- newsArticle as a machine
\* Spec: one article and every method a caller can invoke on it.
\* SpecContent: one article whose callers only request its content.

MaxFeeds == 2

Authors == { << <<"u">>, <<"U">> >> }
Topics == { <<"c","o","w">> }
Subjects == { <<"a","<","b">> }
RawDates == { <<"2","0","2","0","-","0","2","-","0","3","T","1","8",":","3","0",":","0","0",".","0","0","0","Z">>, <<"2","0","1","9","-","1","2","-","3","1","T","2","2",":","1","5",":","0","0",".","0","0","0","Z">>, <<"0","3","/","0","2","/","2","0","2","0"," ","1","8",":","3","0">> }
Offsets == { IntOffset(3), ListOffset(3, 0) }
RawMsgs == { <<"+","1">>, <<"+","1"," ","a","g","r","e","e","d"," ","m","o","r","e">>, <<"-","1"," ","d","i","s","a","g","r","e","e">>,
             <<"+","1"," ","a","g","r","e","e","d">>, <<"+","1"," ","a","g","r","e","e","d","!">>, None }
RawHtmls == { <<"<","h","1",">","t","<","/","h","1",">">>,
              <<"<","b",">","t","<","/","b",">","&","g","t",";">>,
              <<"<","a"," ","h","r","e","f",">","t","<","/","a",">">>,
              <<"<","p",">","<","i","m","g"," ","s","r","c","=","\"","X","\"",">","<","/","p",">","t">>,
              None }

InitArticle ==
  /\ emoji \in EmojiTables
  /\ events = <<>>
  /\ fed = <<>>
  /\ NoArticle
  /\ NoCalls
  /\ NoPair
  /\ NoReader

\* newsArticle(author, topic, subject, date, raw_msg, raw_html, mention_manager)
New ==
  \E author \in Authors, t \in Topics, s \in Subjects, rd \in RawDates, tz \in Offsets,
     msg \in RawMsgs, html \in RawHtmls :
    /\ ~alive /\ op = "none"
    /\ op' = "__init__" /\ arg' = NoArg /\ ret' = None
    /\ raised' = DateRaises(<<rd, tz>>)
    /\ IF DateRaises(<<rd, tz>>) # NoException
         THEN UNCHANGED articleVars
         ELSE /\ alive' = TRUE
              /\ author_username' = author[1]
              /\ author_displayname' = author[2]
              /\ topic' = t
              /\ subject' = s
              /\ date' = getHumanReadableDate(<<rd, tz>>)
              /\ raw_msg' = msg
              /\ raw_html' = html
              /\ broken' = FALSE
              /\ content' = None
              /\ is_plus_one' = None
    /\ UNCHANGED <<pairVars, readerVars, emoji, parserVars, mm_calls, feeds, html_fed>>

\* the caller assigns article.raw_html
SetRawHtml ==
  \E html \in RawHtmls :
    /\ alive
    /\ raw_html' = html
    /\ op' = "raw_html =" /\ arg' = NoArg /\ ret' = None /\ raised' = NoException
    /\ UNCHANGED <<pairVars, readerVars, emoji, parserVars, alive, author_username, author_displayname, topic,
                   subject, date, raw_msg, broken, content, is_plus_one,
                   mm_calls, feeds, html_fed>>

\* article.isPlusOne()
IsPlusOne ==
  /\ alive
  /\ op' = "isPlusOne" /\ arg' = NoArg
  /\ IF IsPlusOneRaises
       THEN raised' = AttributeError /\ ret' = None /\ UNCHANGED is_plus_one
       ELSE raised' = NoException /\ ret' = PlusOneCached /\ is_plus_one' = PlusOneCached
  /\ UNCHANGED <<pairVars, readerVars, emoji, parserVars, alive, author_username, author_displayname, topic,
                 subject, date, raw_msg, raw_html, broken, content,
                 mm_calls, feeds, html_fed>>

\* article.makeHeader()
MakeHeader ==
  /\ alive
  /\ op' = "makeHeader" /\ arg' = NoArg
  /\ IF IsPlusOneRaises
       THEN raised' = AttributeError /\ ret' = None /\ UNCHANGED is_plus_one
       ELSE raised' = NoException /\ ret' = makeHeader /\ is_plus_one' = PlusOneCached
  /\ UNCHANGED <<pairVars, readerVars, emoji, parserVars, alive, author_username, author_displayname, topic,
                 subject, date, raw_msg, raw_html, broken, content,
                 mm_calls, feeds, html_fed>>

\* article.getAsHtml()
GetAsHtml ==
  \E mmOk \in BOOLEAN :
    /\ alive
    /\ op' = "getAsHtml" /\ arg' = NoArg /\ raised' = NoException
    /\ IF NeedsParse(content)
         THEN parseMessage(mmOk)
         ELSE UNCHANGED <<broken, content, is_plus_one, mm_calls, feeds, html_fed>>
    /\ ret' = content'
    /\ UNCHANGED <<pairVars, readerVars, emoji, parserVars, alive, author_username, author_displayname, topic,
                   subject, date, raw_msg, raw_html>>

\* article.parseMessage(), called by the caller itself
ParseMessage ==
  \E mmOk \in BOOLEAN :
    /\ alive
    /\ feeds < MaxFeeds
    /\ op' = "parseMessage" /\ arg' = NoArg /\ raised' = NoException /\ ret' = None
    /\ parseMessage(mmOk)
    /\ UNCHANGED <<pairVars, readerVars, emoji, parserVars, alive, author_username, author_displayname, topic,
                   subject, date, raw_msg, raw_html>>

NextContent ==
  \/ New
  \/ SetRawHtml
  \/ IsPlusOne
  \/ GetAsHtml

SpecContent == InitArticle /\ [][NextContent]_vars

Next ==
  \/ New
  \/ SetRawHtml
  \/ IsPlusOne
  \/ MakeHeader
  \/ GetAsHtml
  \/ ParseMessage

Spec == InitArticle /\ [][Next]_vars

\* -------------------------------------------------- parseLinks as a machine
\* SpecLinks: one article, built from a markdown body and an HTML body, and
\* callers that correlate its markdown body: article.parseLinks(article.raw_msg).

MaxMdPieces == 3
MaxHtmlPieces == 2

MdPieces == { <<"!","[","]","(","a",")">>, <<"!","[","c","]","(","b",")">>, <<" ","t">>, <<"!","[">> }
HtmlPieces == { <<"<","i","m","g"," ","s","r","c","=","\"","X","\"",">">>, <<"<","i","m","g"," ","s","r","c","=","\"","Y","\""," ","a","l","t","=","\"","c","\"",">">>, <<"<","p",">">>, <<"<","i","m","g"," ","s","r","c","=","\"","Z">> }

RECURSIVE Concats(_, _)
\* the strings made of at most n of the pieces
Concats(pieces, n) ==
  IF n = 0 THEN { <<>> }
  ELSE Concats(pieces, n - 1) \cup {c \o q : c \in Concats(pieces, n - 1), q \in pieces}

Markdowns == Concats(MdPieces, MaxMdPieces)
LinkHtmls == Concats(HtmlPieces, MaxHtmlPieces)

\* an article as New leaves it, for each markdown body and each HTML body
InitLinks ==
  /\ emoji \in {t \in EmojiTables : Cardinality(DOMAIN t) = 2}
  /\ events = <<>>
  /\ fed = <<>>
  /\ alive = TRUE
  /\ author_username = <<"u">> /\ author_displayname = <<"U">>
  /\ topic = <<"c","o","w">> /\ subject = <<"a","<","b">>
  /\ date = getHumanReadableDate(<<<<"2","0","2","0","-","0","2","-","0","3","T","1","8",":","3","0",":","0","0",".","0","0","0","Z">>, IntOffset(3)>>)
  /\ raw_msg \in Markdowns
  /\ raw_html \in LinkHtmls
  /\ broken = FALSE /\ content = None /\ is_plus_one = None
  /\ mm_calls = <<>> /\ feeds = 0 /\ html_fed = None
  /\ op = "__init__" /\ arg = NoArg /\ ret = None /\ raised = NoException
  /\ NoPair
  /\ NoReader

\* article.parseLinks(article.raw_msg)
ParseLinks ==
    /\ alive
    /\ op' = "parseLinks" /\ arg' = <<raw_msg, raw_html>> /\ raised' = NoException
    /\ LET r == parseLinks(raw_msg, raw_html)
       IN ret' = r.parsed /\ raw_html' = r.raw_html
    /\ UNCHANGED <<pairVars, readerVars, emoji, parserVars, alive, author_username, author_displayname, topic,
                   subject, date, raw_msg, broken, content, is_plus_one,
                   mm_calls, feeds, html_fed>>

NextLinks == ParseLinks

SpecLinks == InitLinks /\ [][NextLinks]_vars

\* --------------------------------------------- two articles side by side
\* SpecPair: two newsArticle objects and one parseMessage call on each, the
\* two calls advancing one statement at a time in any order (each handler call
\* of feed and each parseMentions call being one step).

ArticleIds == {1, 2}

PairTopics == << <<"c","o","w">>, <<"d","e","v">> >>

\* the fields New gives article i
ArticleOf(i, msg, html) ==
  [author_username |-> <<"u">>, author_displayname |-> <<"U">>,
   topic |-> PairTopics[i], subject |-> <<"a","<","b">>,
   date |-> getHumanReadableDate(<<<<"2","0","2","0","-","0","2","-","0","3","T","1","8",":","3","0",":","0","0",".","0","0","0","Z">>, IntOffset(3)>>),
   raw_msg |-> msg, raw_html |-> html,
   broken |-> FALSE, content |-> None, is_plus_one |-> None]

\* a parseMessage call that has not begun: no locals yet
NotCalled ==
  [pc |-> "idle", hdr |-> None, p |-> 0, content |-> None, mm |-> "none", overlapped |-> FALSE]

InitPair ==
  /\ emoji \in EmojiTables
  /\ events = <<>>
  /\ fed = <<>>
  /\ NoArticle
  /\ NoCalls
  /\ NoReader
  /\ \E m1 \in RawMsgs, m2 \in RawMsgs, h1 \in RawHtmls, h2 \in RawHtmls :
       articles = <<ArticleOf(1, m1, h1), ArticleOf(2, m2, h2)>>
  /\ render = <<NotCalled, NotCalled>>
  /\ parsers = <<>>

\* one articleParser object that every call uses
SharedInstance(i) == 1

\* p = articleParser(): the object a call of article i makes is the object of
\* no other call
Instance(i) == i

\* the other call is between its first and its last statement
Overlaps(i) == \E j \in ArticleIds \ {i} : render[j].pc \notin {"idle", "done"}

\* the call of article i moves to pc with the locals changed as in loc
Goto(i, pc, loc) ==
  render' = [render EXCEPT ![i] = [loc EXCEPT !.pc = pc,
                                              !.overlapped = render[i].overlapped \/ Overlaps(i)]]

\* the statements of the try block with the cache filled before the mentions
\* are parsed
CacheBeforeMentions(pc) ==
  CASE pc = "header" -> "parser"
    [] pc = "parser" -> "feed"
    [] pc = "feed" -> "handlers"
    [] pc = "handlers" -> "cache"
    [] pc = "cache" -> "mentions"
    [] pc = "mentions" -> "done"

\* the statement that follows statement pc of the try block when pc returns:
\* hdr = ..., p = ..., p.feed(...) and its handler calls, content = ...,
\* parseMentions(...), self.content = ...
NextStatement(pc) ==
  CASE pc = "header" -> "parser"
    [] pc = "parser" -> "feed"
    [] pc = "feed" -> "handlers"
    [] pc = "handlers" -> "mentions"
    [] pc = "mentions" -> "cache"
    [] pc = "cache" -> "done"

\* except Exception: self.broken = True
Except(i) ==
  /\ articles' = [articles EXCEPT ![i].broken = TRUE]
  /\ Goto(i, "done", render[i])

PairFrame == UNCHANGED <<emoji, parserVars, articleVars, feeds, html_fed, op, arg, ret, raised, readerVars>>

\* article i .parseMessage(): if self.broken: return
PairParseMessage ==
  \E i \in ArticleIds :
    /\ render[i].pc = "idle"
    /\ Goto(i, IF articles[i].broken THEN "done" ELSE "header", render[i])
    /\ UNCHANGED <<articles, parsers, mm_calls>>
    /\ PairFrame

\* hdr = self.makeHeader()
PairMakeHeader ==
  \E i \in ArticleIds :
    LET a == articles[i]
        ipo == IF a.is_plus_one = None THEN PyBool(isPlusOne(a.raw_msg)) ELSE a.is_plus_one
    IN /\ render[i].pc = "header"
       /\ IF a.is_plus_one = None /\ a.raw_msg = None
            THEN Except(i)
            ELSE /\ articles' = [articles EXCEPT ![i].is_plus_one = ipo]
                 /\ Goto(i, NextStatement("header"),
                         [render[i] EXCEPT !.hdr = Header(a.author_username, a.author_displayname,
                                                          a.topic, a.subject, a.date, ipo)])
       /\ UNCHANGED <<parsers, mm_calls>>
       /\ PairFrame

\* p = articleParser()
PairNewParser ==
  \E i \in ArticleIds :
    /\ render[i].pc = "parser"
    /\ parsers' = (Instance(i) :> [fed |-> <<>>, rawdata |-> <<>>]) @@ parsers
    /\ Goto(i, NextStatement("parser"), [render[i] EXCEPT !.p = Instance(i)])
    /\ UNCHANGED <<articles, mm_calls>>
    /\ PairFrame

\* p.feed(self.raw_html): the text is handed to the parser
PairFeed ==
  \E i \in ArticleIds :
    /\ render[i].pc = "feed"
    /\ IF articles[i].raw_html = None
         THEN Except(i) /\ UNCHANGED parsers
         ELSE /\ parsers' = [parsers EXCEPT ![render[i].p].rawdata = Tokenize(articles[i].raw_html)]
              /\ Goto(i, NextStatement("feed"), render[i])
              /\ UNCHANGED articles
    /\ UNCHANGED mm_calls
    /\ PairFrame

\* p.feed(self.raw_html): the parser calls the handler of its next token
PairHandle ==
  \E i \in ArticleIds :
    LET p == parsers[render[i].p]
    IN /\ render[i].pc = "handlers"
       /\ p.rawdata # <<>>
       /\ IF EventRaises(Head(p.rawdata))
            THEN Except(i) /\ UNCHANGED parsers
            ELSE /\ parsers' = [parsers EXCEPT ![render[i].p] =
                                  [fed |-> Dispatch(emoji, p.fed, Head(p.rawdata)),
                                   rawdata |-> Tail(p.rawdata)]]
                 /\ Goto(i, "handlers", render[i])
                 /\ UNCHANGED articles
       /\ UNCHANGED mm_calls
       /\ PairFrame

\* content = p.get_data()
PairGetData ==
  \E i \in ArticleIds :
    /\ render[i].pc = "handlers"
    /\ parsers[render[i].p].rawdata = <<>>
    /\ Goto(i, NextStatement("handlers"), [render[i] EXCEPT !.content = get_data(parsers[render[i].p].fed)])
    /\ UNCHANGED <<articles, parsers, mm_calls>>
    /\ PairFrame

\* self.mention_manager.parseMentions(content, self.topic), one call at a time
PairParseMentions ==
  \E i \in ArticleIds, mmOk \in BOOLEAN :
    /\ render[i].pc = "mentions"
    /\ mm_calls' = Append(mm_calls, Mention(render[i].content, articles[i].topic))
    /\ IF mmOk
         THEN Goto(i, NextStatement("mentions"), [render[i] EXCEPT !.mm = "returned"])
              /\ UNCHANGED articles
         ELSE /\ articles' = [articles EXCEPT ![i].broken = TRUE]
              /\ Goto(i, "done", [render[i] EXCEPT !.mm = "raised"])
    /\ UNCHANGED parsers
    /\ PairFrame

\* self.content = hdr + content
PairCache ==
  \E i \in ArticleIds :
    /\ render[i].pc = "cache"
    /\ articles' = [articles EXCEPT ![i].content = Content(render[i].hdr, render[i].content)]
    /\ Goto(i, NextStatement("cache"), render[i])
    /\ UNCHANGED <<parsers, mm_calls>>
    /\ PairFrame

NextPair ==
  \/ PairParseMessage
  \/ PairMakeHeader
  \/ PairNewParser
  \/ PairFeed
  \/ PairHandle
  \/ PairGetData
  \/ PairParseMentions
  \/ PairCache

SpecPair == InitPair /\ [][NextPair]_vars

\* ------------------------------------------ getHumanReadableDate as a machine
\* SpecDate: one call getHumanReadableDate(date) for each date of DateInputs.

MaxOffsetHours == 3

\* "%Y-%m-%dT%H:%M:%S" written for the fields, 30 minutes past the hour
Timestamp(Y, m, d, H) ==
  FourDigits(Y) \o <<"-">> \o TwoDigits(m) \o <<"-">> \o TwoDigits(d) \o <<"T">>
  \o TwoDigits(H) \o <<":","3","0",":","0","0">>

\* raw dates: the last days of a month and of a year, a day that no calendar
\* has (29 Feb 2019), hours near midnight, with and without the suffix
Timestamps ==
  { Timestamp(Y, md[1], md[2], H) \o suffix :
      Y \in {2019, 2020}, md \in { <<2, 3>>, <<2, 28>>, <<2, 29>>, <<12, 31>> },
      H \in {18, 21, 23}, suffix \in { <<>>, <<".","0","0","0","Z">> } }

\* the [hours, minutes] list of the comment, and a plain number of hours
DateOffsets ==
  { ListOffset(h, m) : h \in 0..MaxOffsetHours, m \in {0, 30} }
  \cup { IntOffset(h) : h \in 0..MaxOffsetHours }

DateInputs == { <<ts, tz>> : ts \in Timestamps, tz \in DateOffsets }

InitDate ==
  /\ emoji \in {t \in EmojiTables : Cardinality(DOMAIN t) = 2}
  /\ events = <<>>
  /\ fed = <<>>
  /\ NoArticle
  /\ mm_calls = <<>> /\ feeds = 0 /\ html_fed = None
  /\ op = "none" /\ arg \in DateInputs /\ ret = None /\ raised = NoException
  /\ NoPair
  /\ NoReader

\* getHumanReadableDate(arg)
GetHumanReadableDate ==
  /\ op = "none"
  /\ op' = "getHumanReadableDate"
  /\ raised' = DateRaises(arg)
  /\ ret' = IF DateRaises(arg) = NoException THEN getHumanReadableDate(arg) ELSE None
  /\ UNCHANGED <<pairVars, readerVars, emoji, parserVars, articleVars, mm_calls, feeds, html_fed, arg>>

NextDate == GetHumanReadableDate

SpecDate == InitDate /\ [][NextDate]_vars

\* ------------------------------------------------- newsReader as a machine
\* SpecReader: one newsReader, a server whose groups gain and drop articles,
\* and updateTopic calls that the transport serves.
\* SpecReaderFaults: the same with updateTopic calls in which conn.group or a
\* conn.article raises.

MaxArticle == 4

NewsGroups == { <<"c","o","w">>, <<"d","e","v">> }

NNTPError == "NNTPError"

\* the first and last article numbers a group can have when the reader
\* connects: an empty group, one article, two articles of which one is gone
Marks == { [first |-> 1, last |-> 0], [first |-> 1, last |-> 1], [first |-> 2, last |-> 2] }

\* the message updateTopic builds from article n of group t
Msg(t, n) == <<t, n>>

\* newsReader(host, port, uname, pw): self.groups[g.group] = int(g.last)
InitReader ==
  /\ emoji \in {t \in EmojiTables : Cardinality(DOMAIN t) = 2}
  /\ events = <<>>
  /\ fed = <<>>
  /\ NoArticle
  /\ mm_calls = <<>> /\ feeds = 0 /\ html_fed = None
  /\ op = "__init__" /\ arg = NoArg /\ ret = None /\ raised = NoException
  /\ NoPair
  /\ server \in [NewsGroups -> Marks]
  /\ listed = [t \in NewsGroups |-> server[t].last]
  /\ groups = listed
  /\ delivered = [t \in NewsGroups |-> <<>>]

\* start = max(self.groups[topic], first): the last article read is fetched again
StartAtCursor(cursor, first) == IF cursor > first THEN cursor ELSE first

\* start = max(self.groups[topic]+1, first)
Start(cursor, first) == IF cursor + 1 > first THEN cursor + 1 ELSE first

\* the numbers the while loop passes: start, start+1, ... last
Numbers(start, last) == [k \in 1..(last - start + 1) |-> start + k - 1]

ReaderFrame == UNCHANGED <<emoji, parserVars, articleVars, mm_calls, feeds, html_fed, pairVars, listed>>

\* reader.updateTopic(t), every call on self.conn returning
UpdateTopic ==
  \E t \in NewsGroups :
    LET first == server[t].first
        last == server[t].last
        nums == Numbers(Start(groups[t], first), last)
    IN /\ op' = "updateTopic" /\ arg' = t /\ raised' = NoException
       /\ ret' = [k \in 1..Len(nums) |-> Msg(t, nums[k])]
       /\ delivered' = [delivered EXCEPT ![t] = delivered[t] \o nums]
       /\ groups' = [groups EXCEPT ![t] = last]
       /\ UNCHANGED server
       /\ ReaderFrame

\* the cursor kept up to date inside the loop: it is at the last article read
\* when the exception leaves
CursorAtLastRead(cursor, read) == IF read = <<>> THEN cursor ELSE read[Len(read)]

\* self.groups[topic] when an exception leaves updateTopic after the articles
\* read were fetched: line 43 was not reached
CursorAfterRaise(cursor, read) == cursor

\* reader.updateTopic(t) in which self.conn.group raises (at = 0) or the
\* at-th self.conn.article call does: the exception leaves updateTopic, and
\* res with it
UpdateTopicRaises ==
  \E t \in NewsGroups :
    LET nums == Numbers(Start(groups[t], server[t].first), server[t].last)
    IN \E at \in 0..Len(nums) :
         /\ op' = "updateTopic" /\ arg' = t /\ raised' = NNTPError /\ ret' = None
         /\ groups' = [groups EXCEPT ![t] = CursorAfterRaise(groups[t], SubSeq(nums, 1, at - 1))]
         /\ UNCHANGED <<delivered, server>>
         /\ ReaderFrame

\* the server takes a new article into group t
Post ==
  \E t \in NewsGroups :
    /\ server[t].last < MaxArticle
    /\ server' = [server EXCEPT ![t].last = server[t].last + 1]
    /\ UNCHANGED <<groups, delivered, op, arg, ret, raised>>
    /\ ReaderFrame

\* the server drops the oldest article of group t
Expire ==
  \E t \in NewsGroups :
    /\ server[t].first <= server[t].last
    /\ server' = [server EXCEPT ![t].first = server[t].first + 1]
    /\ UNCHANGED <<groups, delivered, op, arg, ret, raised>>
    /\ ReaderFrame

NextReader ==
  \/ UpdateTopic
  \/ Post
  \/ Expire

SpecReader == InitReader /\ [][NextReader]_vars

NextReaderFaults ==
  \/ UpdateTopic
  \/ UpdateTopicRaises
  \/ Post
  \/ Expire

SpecReaderFaults == InitReader /\ [][NextReaderFaults]_vars

\* ------------------------------------------------- properties of the parser

\* the start and end tags of an event sequence, in order: <<kind, name>>
RECURSIVE TagItems(_)
TagItems(evs) ==
  IF evs = <<>> THEN <<>>
  ELSE LET e == Head(evs)
       IN (IF e.type \in {"starttag", "endtag"} THEN << <<e.type, e.tag>> >> ELSE <<>>)
          \o TagItems(Tail(evs))

\* the name of a written start tag: the characters after "<" up to a space or ">"
WrittenName(frag, from) ==
  LET stops == {i \in from..Len(frag) : frag[i] \in {" ", ">"}}
      stop == CHOOSE i \in stops : \A j \in stops : i <= j
  IN SubSeq(frag, from, stop - 1)

\* the start and end tags among the fragments of fed, in order: <<kind, name>>
RECURSIVE OutTags(_)
OutTags(f) ==
  IF f = <<>> THEN <<>>
  ELSE LET frag == Head(f)
       IN (IF Len(frag) >= 3 /\ frag[1] = "<" /\ frag[Len(frag)] = ">"
             THEN IF frag[2] = "/" THEN << <<"endtag", WrittenName(frag, 3)>> >>
                  ELSE << <<"starttag", WrittenName(frag, 2)>> >>
             ELSE <<>>)
          \o OutTags(Tail(f))

\* the stack of open names after the items, <<"unbalanced">> on an end tag that
\* does not close the innermost open element
RECURSIVE OpenAfter(_, _)
OpenAfter(items, stack) ==
  IF items = <<>> THEN stack
  ELSE LET it == Head(items)
       IN IF it[1] = "starttag" THEN OpenAfter(Tail(items), Append(stack, it[2]))
          ELSE IF stack # <<>> /\ stack[Len(stack)] = it[2]
                 THEN OpenAfter(Tail(items), SubSeq(stack, 1, Len(stack) - 1))
                 ELSE << "unbalanced" >>

Balanced(items) == OpenAfter(items, <<>>) = <<>>

\* the output name the specification gives a tag
SpecName(tag) ==
  IF tag \in { <<"h","1">>, <<"h","2">>, <<"h","3">> } THEN <<"b">>
  ELSE IF tag = <<"b","l","o","c","k","q","u","o","t","e">> THEN <<"i">>
  ELSE tag

AllowListed ==
  { <<"s","t","r","i","k","e">>, <<"i">>, <<"s","t","r","o","n","g">>, <<"b">>,
    <<"p","r","e">>, <<"i","n","s">>, <<"a">>, <<"c","o","d","e">>,
    <<"d","e","l">>, <<"s">>, <<"e","m">>, <<"u">> }

Mapped == { <<"h","1">>, <<"h","2">>, <<"h","3">>, <<"b","l","o","c","k","q","u","o","t","e">> }

\* the input of C7: only allow-listed or mapped tags, validly nested, and fed
\* to the end
KnownTagsNested ==
  /\ raised = NoException
  /\ \A i \in 1..Len(TagItems(events)) : TagItems(events)[i][2] \in AllowListed \cup Mapped
  /\ Balanced(TagItems(events))

\* C7: for an input of allow-listed or mapped tags, validly nested, the written
\* tags are the input's tags one for one, in document order, each under its
\* output name (allow-listed unchanged, h1/h2/h3 -> b, blockquote -> i), and
\* they are balanced.
C7_BalancedOutput ==
  KnownTagsNested =>
    /\ OutTags(fed) =
         [i \in 1..Len(TagItems(events)) |->
            <<TagItems(events)[i][1], SpecName(TagItems(events)[i][2])>>]
    /\ Balanced(OutTags(fed))

\* a mapped element around an allow-listed one, both closed
C7_Witness ==
  /\ KnownTagsNested
  /\ Len(events) = 4
  /\ events[1].type = "starttag" /\ events[1].tag \in Mapped
  /\ events[2].type = "starttag" /\ events[2].tag = <<"a">>
  /\ OutTags(fed) = << <<"starttag", <<"b">> >>, <<"starttag", <<"a">> >>,
                       <<"endtag", <<"a">> >>, <<"endtag", <<"b">> >> >>

\* the glyph the specification gives an emoji image: the entry of its title,
\* the default entry when the title is absent or no key, '' when the default
\* key is no key either
SpecGlyph(table, attrs) ==
  LET titles == {i \in 1..Len(attrs) : attrs[i][1] = <<"t","i","t","l","e">>}
      title == attrs[CHOOSE i \in titles : \A j \in titles : j <= i][2]
  IN IF titles # {} /\ title \in DOMAIN table THEN table[title]
     ELSE IF <<":","c","o","w",":">> \in DOMAIN table THEN table[<<":","c","o","w",":">>]
     ELSE <<>>

LastIsEmojiImg ==
  /\ events # <<>>
  /\ events[Len(events)].type = "starttag"
  /\ events[Len(events)].tag = <<"i","m","g">>
  /\ ClassEmoji \in {events[Len(events)].attrs[i] : i \in 1..Len(events[Len(events)].attrs)}

\* C8: an img start tag of class emoji writes the table's glyph for its title,
\* the default entry's glyph when the title is absent or is no key of the
\* table, and '' only when the default key is unmapped.
C8_EmojiGlyph ==
  LastIsEmojiImg =>
    /\ fed # <<>>
    /\ fed[Len(fed)] = SpecGlyph(emoji, events[Len(events)].attrs)

\* a fragment of fed that is a start or an end tag
IsTagFrag(frag) == Len(frag) >= 3 /\ frag[1] = "<" /\ frag[Len(frag)] = ">"

\* a fragment of fed that is a tag or a text token
IsTagOrText(frag) == IsTagFrag(frag) \/ frag \in DataInputs

\* the handler calls that returned: all of events but a last one that raised
Handled == IF raised = NoException THEN events ELSE SubSeq(events, 1, Len(events) - 1)

\* the value of the last href among the attributes, '' when there is none
HrefOf(attrs) ==
  LET hrefs == {i \in 1..Len(attrs) : attrs[i][1] = <<"h","r","e","f">>}
  IN IF hrefs = {} THEN <<>> ELSE attrs[CHOOSE i \in hrefs : \A j \in hrefs : j <= i][2]

\* the tags and text tokens the specification transcodes the events to: a tag
\* of an allow-listed or mapped name under its output name, href kept on a
\* and every other attribute dropped; no tag for any other name; each text
\* token as it is
RECURSIVE SpecTagsAndText(_)
SpecTagsAndText(evs) ==
  IF evs = <<>> THEN <<>>
  ELSE LET e == Head(evs)
           known == e.tag \in AllowListed \cup Mapped
       IN (CASE e.type = "starttag" /\ known ->
                  << <<"<">> \o SpecName(e.tag)
                     \o (IF e.tag = <<"a">>
                           THEN <<" ","h","r","e","f","=","\"">> \o HrefOf(e.attrs) \o <<"\"">>
                           ELSE <<>>)
                     \o <<">">> >>
             [] e.type = "endtag" /\ known -> << <<"<","/">> \o SpecName(e.tag) \o <<">">> >>
             [] e.type = "data" -> <<e.data>>
             [] OTHER -> <<>>)
          \o SpecTagsAndText(Tail(evs))

\* C15: whatever the tokens, every tag written has an allow-listed name; the
\* tags and text tokens written are, in order, those of the input with each
\* tag of a name neither allow-listed nor mapped (img among them) left out and
\* the text inside it kept; and a written tag has an attribute only when it is
\* the href of an input a.
C15_AllowListOnly ==
  /\ LET tags == OutTags(fed) IN \A i \in 1..Len(tags) : tags[i][2] \in AllowListed
  /\ SelectSeq(fed, IsTagOrText) = SpecTagsAndText(Handled)
  /\ \A i \in 1..Len(fed) :
       (IsTagFrag(fed[i]) /\ \E k \in 1..Len(fed[i]) : fed[i][k] \in {" ", "="}) =>
         SubSeq(fed[i], 1, 9) = <<"<","a"," ","h","r","e","f","=","\"">>

\* text, then an allow-listed tag with attributes, inside an element that is
\* neither allow-listed nor mapped
C15_Witness ==
  /\ Len(events) = 4 /\ raised = NoException
  /\ events[1].type = "starttag" /\ events[1].tag = <<"d","i","v">> /\ events[1].attrs # <<>>
  /\ events[2].type = "data"
  /\ events[3].type = "starttag" /\ events[3].tag = <<"i">> /\ events[3].attrs # <<>>
  /\ events[4].type = "endtag" /\ events[4].tag = <<"d","i","v">>
  /\ fed = <<events[2].data, <<"<","i",">">> >>

\* a fragment of fed that is entity markup: &...;
IsRefFrag(frag) == Len(frag) >= 3 /\ frag[1] = "&" /\ frag[Len(frag)] = ";"

IsRefOrText(frag) == IsRefFrag(frag) \/ frag \in DataInputs

\* the references and text tokens of the events, each reference as the markup
\* the input had: &name; or &#number;
RECURSIVE SpecRefsAndText(_)
SpecRefsAndText(evs) ==
  IF evs = <<>> THEN <<>>
  ELSE LET e == Head(evs)
       IN (CASE e.type = "entityref" -> << <<"&">> \o e.name \o <<";">> >>
             [] e.type = "charref" -> << <<"&","#">> \o e.name \o <<";">> >>
             [] e.type = "data" -> <<e.data>>
             [] OTHER -> <<>>)
          \o SpecRefsAndText(Tail(evs))

\* C16: every character reference of the input, named or numeric, is written
\* as the markup it had, at its place among the text tokens; none is decoded
\* and none is dropped.
C16_EntitiesVerbatim ==
  SelectSeq(fed, IsRefOrText) = SpecRefsAndText(Handled)

\* ----------------------------------------------- properties of the article

\* the render status of the specification, read off the two fields
Status ==
  IF broken THEN (IF content = None THEN "Broken" ELSE "BrokenWithContent")
  ELSE IF content = None THEN "Unparsed" ELSE "Parsed"

\* C1: over content requests, raw_html is transcoded at most once, and once
\* the content is cached every request returns that same content and leaves
\* it alone, whatever raw_html has become.
C1_RenderOnce ==
  /\ [](feeds <= 1)
  /\ [][(op' = "getAsHtml" /\ content # None) =>
          (ret' = content /\ content' = content /\ feeds' = feeds)]_vars

\* a request answered from the cache after raw_html was assigned another body
C1_Witness ==
  /\ op = "getAsHtml" /\ content # None /\ ret = content
  /\ feeds = 1 /\ raw_html # html_fed
  /\ raw_html # None /\ ~FeedRaises(raw_html)

\* C2: parseMessage on an article that is Parsed or Broken changes neither
\* the content nor the status and calls neither the parser nor MentionManager.
C2_ParseMessageNoOp ==
  [][(op' = "parseMessage" /\ Status \in {"Parsed", "Broken"}) =>
       (content' = content /\ broken' = broken /\ feeds' = feeds /\ mm_calls' = mm_calls)]_vars

\* C3: Parsed and Broken are terminal under every operation.
C3_StatusTerminal ==
  [][/\ Status = "Parsed" => Status' = "Parsed"
     /\ Status = "Broken" => Status' = "Broken"]_vars

\* C4: no error of the render's kinds, DateParseError included, reaches the
\* caller.
C4_RenderErrorsCaught ==
  raised \notin {DateParseError, MarkupParseError, MentionExtractionError}

\* C5: over content requests, a broken article has no content, and every step
\* from a broken article leaves it broken and without content, makes no call
\* to the parser or to MentionManager, and a request returns None and raises
\* nothing.
C5_BrokenPermanent ==
  /\ [](broken => content = None)
  /\ [][broken =>
          /\ broken' /\ content' = None
          /\ feeds' = feeds /\ mm_calls' = mm_calls
          /\ op' = "getAsHtml" => (ret' = None /\ raised' = NoException)]_vars

\* a request on a broken article whose raw_html has since become renderable
C5_Witness ==
  /\ op = "getAsHtml" /\ broken /\ ret = None
  /\ feeds = 1 /\ raw_html # html_fed
  /\ ~FeedRaises(raw_html)

\* C6: over content requests, parseMentions has been called once if the
\* article is Parsed and at most once otherwise, with the transcoded body of
\* the raw_html that was rendered, which is the content without its header,
\* and with the article's topic.
C6_MentionsOnce ==
  /\ Len(mm_calls) <= 1
  /\ Status = "Parsed" => Len(mm_calls) = 1
  /\ \A i \in 1..Len(mm_calls) :
       /\ mm_calls[i] = <<Transcode(emoji, html_fed), topic>>
       /\ Status = "Parsed" => content = makeHeader \o mm_calls[i][1]

\* a second request on a Parsed article whose raw_html has changed
C6_Witness ==
  /\ op = "getAsHtml" /\ Status = "Parsed"
  /\ Len(mm_calls) = 1 /\ mm_calls[1][1] # <<>>
  /\ raw_html # html_fed

\* ------------------------------------------------ properties of parseLinks

RECURSIVE ImageSources(_)
\* the image sources of an HTML body in document order: the text between each
\* <img src=" and the quote that closes it
ImageSources(html) ==
  LET i == Find(html, <<"<","i","m","g"," ","s","r","c","=","\"">>)
      rest == SliceFrom(html, i + Len(<<"<","i","m","g"," ","s","r","c","=","\"">>))
      q == Find(rest, <<"\"">>)
  IN IF i = -1 \/ q = -1 THEN <<>>
     ELSE <<Slice(rest, 0, q)>> \o ImageSources(SliceFrom(rest, q + 1))

\* the placeholders ![alt](target) of a markdown text, left to right
Placeholders(msg) == FindIter(msg, 0)

LinkCorrelationUnderflow == "LinkCorrelationUnderflow"

\* C9: a call that finds more placeholders than image sources raises
\* LinkCorrelationUnderflow and returns no text.
C9_UnderflowRaises ==
  (op = "parseLinks" /\ Len(Placeholders(arg[1])) > Len(ImageSources(arg[2]))) =>
    (raised = LinkCorrelationUnderflow /\ ret = None)

\* the text the specification rewrites msg to, given the URLs in order
Rewritten(msg, urls) ==
  LET ms == Placeholders(msg)
      alt(i) == Slice(msg, ms[i].name_start, ms[i].name_end)
      before(i) == Slice(msg, IF i = 1 THEN 0 ELSE ms[i - 1].end, ms[i].start)
      name(i) == IF alt(i) # <<>> THEN alt(i) ELSE <<"L","i","n","k"," ">> \o <<Digits[i + 1]>>
  IN Join([i \in 1..Len(ms) |->
             before(i) \o <<"[">> \o name(i) \o <<"]", "(">> \o urls[i] \o <<")">>])
     \o SliceFrom(msg, IF ms = <<>> THEN 0 ELSE ms[Len(ms)].end)

\* C10: a call that finds at least as many image sources as placeholders
\* returns the markdown text with its i-th placeholder rewritten to
\* [name](u_i), u_i the i-th image source of the HTML body and name the alt
\* text or 'Link i', and everything else unchanged and in order.
C10_Correlated ==
  (op = "parseLinks" /\ Len(Placeholders(arg[1])) <= Len(ImageSources(arg[2]))) =>
    ret = Rewritten(arg[1], ImageSources(arg[2]))

\* two placeholders, the first without alt text, text between them, and two
\* different sources
C10_Witness ==
  /\ op = "parseLinks"
  /\ arg[1] = <<"!","[","]","(","a",")"," ","t","!","[","c","]","(","b",")">>
  /\ ImageSources(arg[2]) = << <<"X">>, <<"Y">> >>
  /\ ret = <<"[","L","i","n","k"," ","1","]","(","X",")"," ","t","[","c","]","(","Y",")">>

\* ------------------------------------------ properties of a pair of articles

\* the outcome of parseMessage on article i when its call runs on its own,
\* start to end, with the MentionManager outcome its call met
Alone(i) ==
  LET a == articles[i]
      fails == a.raw_msg = None \/ FeedRaises(a.raw_html) \/ render[i].mm = "raised"
  IN [broken |-> fails,
      content |-> IF fails THEN None
                  ELSE Content(Header(a.author_username, a.author_displayname, a.topic,
                                      a.subject, a.date, PyBool(isPlusOne(a.raw_msg))),
                               Transcode(emoji, a.raw_html))]

\* C11: in every interleaving of the statements of two parseMessage calls on
\* two articles, a call that has ended leaves its article with the broken flag
\* and the content it gets when the call runs on its own, and a step of one
\* call changes no field of the other article.
C11_Independent ==
  /\ [](\A i \in ArticleIds :
          render[i].pc = "done" =>
            /\ articles[i].broken = Alone(i).broken
            /\ articles[i].content = Alone(i).content)
  /\ [][\A i \in ArticleIds : render'[i] = render[i] => articles'[i] = articles[i]]_vars

\* both calls have ended, each having run while the other was under way, and
\* both articles are Parsed, with different bodies
C11_Witness ==
  /\ \A i \in ArticleIds :
       /\ render[i].pc = "done" /\ render[i].overlapped
       /\ ~articles[i].broken /\ articles[i].content # None
  /\ render[1].content # render[2].content
  /\ render[1].content # <<>> /\ render[2].content # <<>>

\* ------------------------------------------- properties of the date format

\* the timestamp names a day of the calendar
OnCalendar(ts) == ~StrptimeRaises(BeforeDot(ts))

\* C12: for a timestamp YYYY-MM-DDTHH:MM:SS, with or without a suffix, and an
\* offset of two fields [hours, minutes], getHumanReadableDate returns the
\* instant moved on by exactly the hours field, carried into day, month and
\* year, as DD Mon YYYY, HH:MM:SS, and the minutes field changes nothing.
C12_ShiftByHours ==
  (op = "getHumanReadableDate" /\ arg[2].type = "list" /\ OnCalendar(arg[1])) =>
    /\ raised = NoException
    /\ ret = Strftime(AddHours(DateFields(BeforeDot(arg[1])), arg[2].items[1]))

\* ---------------------------------------------- properties of the plus-one

\* the body starts with the two characters +1 and is under 10 characters long
StartsPlusOneShort(msg) ==
  /\ Len(msg) >= 2 /\ msg[1] = "+" /\ msg[2] = "1"
  /\ Len(msg) \in 0..9

\* C13: the cached flag, once set, is True exactly when the raw body starts
\* with +1 and is under 10 characters long; it is never set again, whatever
\* the state of the article; and every call of isPlusOne that returns gives
\* the cached flag.
C13_PlusOneStable ==
  /\ [](is_plus_one # None =>
          /\ raw_msg # None
          /\ is_plus_one = (IF StartsPlusOneShort(raw_msg) THEN True ELSE False))
  /\ []((op = "isPlusOne" /\ raised = NoException) => (ret # None /\ ret = is_plus_one))
  /\ [][is_plus_one # None => is_plus_one' = is_plus_one]_vars

\* a call on a rendered article whose body starts with +1 and is exactly 10
\* characters long
C13_Witness ==
  /\ op = "isPlusOne" /\ raised = NoException
  /\ content # None
  /\ Len(raw_msg) = 10 /\ Slice(raw_msg, 0, 2) = <<"+","1">>
  /\ ret = False

\* ----------------------------------------------- properties of the raw fields

\* C14: no call changes a raw field of the article (author, topic, subject,
\* raw body, raw HTML body), and a parseLinks call that follows a parseLinks
\* call on the same markdown text returns what that one returned.
C14_RawFieldsFrozen ==
  [][/\ <<author_username, author_displayname, topic, subject, raw_msg, raw_html>>'
          = <<author_username, author_displayname, topic, subject, raw_msg, raw_html>>
     /\ (op = "parseLinks" /\ op' = "parseLinks" /\ arg'[1] = arg[1]) => ret' = ret]_vars

\* ------------------------------------------ properties of the render steps

\* the parseMentions calls made for article i
CallsOf(i) == Cardinality({k \in 1..Len(mm_calls) : mm_calls[k][2] = articles[i].topic})

\* C17: parseMentions is called only once the header is built and the body
\* transcoded, with that transcoded body, and before anything is cached; a
\* call whose header or transcoding failed has never called parseMentions and
\* leaves the article broken; a call whose parseMentions raised leaves the
\* article broken and without content; and content is cached only after
\* parseMentions returned.
C17_StepsInOrder ==
  /\ [][\A i \in ArticleIds :
          (render[i].mm = "none" /\ render'[i].mm # "none") =>
            /\ render[i].hdr # None
            /\ render[i].content = Transcode(emoji, articles[i].raw_html)
            /\ mm_calls' = Append(mm_calls, <<render[i].content, articles[i].topic>>)
            /\ articles[i].content = None]_vars
  /\ [](\A i \in ArticleIds :
          /\ (render[i].pc = "done"
              /\ (articles[i].raw_msg = None \/ FeedRaises(articles[i].raw_html))) =>
               (CallsOf(i) = 0 /\ articles[i].broken /\ articles[i].content = None)
          /\ render[i].mm = "raised" =>
               (render[i].pc = "done" /\ articles[i].broken /\ articles[i].content = None)
          /\ articles[i].content # None =>
               (render[i].mm = "returned" /\ CallsOf(i) = 1 /\ ~articles[i].broken))

\* both cases at once: parseMentions raised for article 1 after its body was
\* transcoded, and the transcoding of article 2 failed
C17_Witness ==
  /\ render[1].pc = "done" /\ render[1].mm = "raised"
  /\ render[1].hdr # None /\ render[1].content # <<>> /\ render[1].content # None
  /\ articles[1].broken /\ articles[1].content = None
  /\ render[2].pc = "done" /\ render[2].hdr # None
  /\ articles[2].raw_html # None /\ FeedRaises(articles[2].raw_html)
  /\ articles[2].broken /\ CallsOf(2) = 0

\* ------------------------------------------- properties of the status fields

\* C18: whatever getAsHtml and parseMessage calls are made, with whatever
\* outcomes of the transcoder and of MentionManager, the article is Unparsed,
\* Parsed or Broken: broken is never set together with a content.
C18_BrokenXorContent ==
  alive => (Status \in {"Unparsed", "Parsed", "Broken"} /\ ~(broken /\ content # None))

\* --------------------------------------------- properties of the newsReader

\* the numbers of a sequence
Range(seq) == {seq[k] : k \in 1..Len(seq)}

\* the numbers from lo to hi in ascending order, none when lo > hi
Ascending(lo, hi) == [k \in 1..(IF hi >= lo THEN hi - lo + 1 ELSE 0) |-> lo + k - 1]

\* a step that is an updateTopic call: the server's steps leave op as it was
\* and change the server
IsCall == op' = "updateTopic" /\ server' = server

\* a successful updateTopic(t) returns exactly the articles numbered from the
\* larger of cursor + 1 and the server's first up to the server's last, each
\* once and in ascending order, sets the cursor of t to last and leaves every
\* other cursor alone
FetchesFromCursor ==
  [][(IsCall /\ raised' = NoException) =>
       LET t == arg'
           lo == IF groups[t] + 1 >= server[t].first THEN groups[t] + 1 ELSE server[t].first
           nums == Ascending(lo, server[t].last)
       IN /\ ret' = [k \in 1..Len(nums) |-> <<t, nums[k]>>]
          /\ delivered'[t] = delivered[t] \o nums
          /\ groups'[t] = server[t].last
          /\ \A u \in NewsGroups \ {t} : groups'[u] = groups[u] /\ delivered'[u] = delivered[u]]_vars

\* no article number of a topic has been returned twice
NoneTwice ==
  \A t \in NewsGroups :
    \A j, k \in 1..Len(delivered[t]) : j < k => delivered[t][j] < delivered[t][k]

\* C19 as stated: every successful call fetches from the cursor as above; no
\* number is returned twice; and every number from the first one returned to
\* the cursor has been returned.
C19_NoneSkipped ==
  /\ FetchesFromCursor
  /\ [](NoneTwice)
  /\ [](\A t \in NewsGroups :
          delivered[t] # <<>> =>
            \A n \in delivered[t][1]..groups[t] : n \in Range(delivered[t]))

\* C19 amended: the same, but a number between the first start and the cursor
\* may be missing when the server had dropped it (it is below the server's
\* first) before a call reached it; counted from the cursor the reader had
\* when it connected.
C19_NoneSkippedButDropped ==
  /\ FetchesFromCursor
  /\ [](NoneTwice)
  /\ [](\A t \in NewsGroups :
          \A n \in (listed[t] + 1)..groups[t] :
            n \in Range(delivered[t]) \/ n < server[t].first)

\* a second successful call on a topic that passed over a dropped article:
\* 2 was returned, 3 was dropped by the server, 4 is returned
C19_Witness ==
  /\ op = "updateTopic" /\ raised = NoException
  /\ delivered[arg] = <<2, 4>>
  /\ ret = << <<arg, 4>> >>
  /\ groups[arg] = 4
  /\ \E u \in NewsGroups \ {arg} : groups[u] = listed[u] /\ server[u].last > groups[u]

\* C20: an updateTopic call that raises leaves every cursor and everything
\* returned so far as they were and returns nothing; a successful call on the
\* same topic right after it starts at the number the failed call started at;
\* and no article is lost: every number between the cursor at connect and the
\* present cursor has been returned or is no longer on the server.
C20_CursorKeptOnRaise ==
  /\ [][(IsCall /\ raised' = NNTPError) =>
          (groups' = groups /\ delivered' = delivered /\ ret' = None)]_vars
  /\ [][(op = "updateTopic" /\ raised = NNTPError
         /\ IsCall /\ raised' = NoException /\ arg' = arg) =>
          ret' = [k \in 1..Len(ret') |->
                    <<arg, (IF groups[arg] + 1 >= server[arg].first
                              THEN groups[arg] + 1 ELSE server[arg].first) + k - 1>>]]_vars
  /\ [](\A t \in NewsGroups :
          \A n \in (listed[t] + 1)..groups[t] :
            n \in Range(delivered[t]) \/ n < server[t].first)

\* a call has raised with two articles waiting on the server, after an earlier
\* call had returned one
C20_Witness ==
  /\ op = "updateTopic" /\ raised = NNTPError
  /\ delivered[arg] # <<>>
  /\ server[arg].last >= groups[arg] + 2
  /\ server[arg].first <= groups[arg] + 1

====
